---- MODULE Spec2Model ----
(***************************************************************************)
(* State-machine model of src/main.py: the crawl of the registry listing   *)
(* (one pass per person, one step per document link, a manifest written    *)
(* per person) and the analysis of the downloaded PDFs.  The filesystem    *)
(* (PDF files, person directories, manifests) persists from one run of     *)
(* the program to the next; the listing is the same in every run.          *)
(***************************************************************************)
EXTENDS Integers, Sequences, FiniteSets, TLC

\* ------------------------------------------------------------------ bounds
MaxPersons == 2
MaxLinks == 2
MaxRuns == 2
MaxFaults == 1
MaxName == 4
MaxText == 9
MaxChildren == 3
MaxTokens == 6

\* ----------------------------------------------------------------- helpers
Range(s) == {s[i] : i \in DOMAIN s}

SeqsUpTo(S, n) == UNION {[1..k -> S] : k \in 0..n}

Min(a, b) == IF a < b THEN a ELSE b

\* ----------------------------------------------------- names and folders
\* A name is a sequence of characters.
Whitespace == {" ", "\t"}

RemoveParens(name) == SelectSeq(name, LAMBDA c : c \notin {"(", ")"})

RECURSIVE SkipWhitespace(_)
SkipWhitespace(s) ==
  IF s # <<>> /\ Head(s) \in Whitespace THEN SkipWhitespace(Tail(s)) ELSE s

\* Mutant of CollapseWhitespace: a run of whitespace is left as it is.
CollapseNothing(s) == s

RECURSIVE CollapseWhitespace(_)
CollapseWhitespace(s) ==
  IF s = <<>> THEN <<>>
  ELSE IF Head(s) \in Whitespace
       THEN <<" ">> \o CollapseWhitespace(SkipWhitespace(s))
       ELSE <<Head(s)>> \o CollapseWhitespace(Tail(s))

ReplaceSpaces(s) == [i \in DOMAIN s |-> IF s[i] = " " THEN "_" ELSE s[i]]

sanitize_name(name) == ReplaceSpaces(CollapseWhitespace(RemoveParens(name)))

\* The displayed names a person item of the listing can carry (the empty
\* name is the item whose reconstructed name is empty).
PersonNames ==
  { <<>>, <<"J", " ", "D">>, <<"J", " ", "(", "D", ")">> }

\* The names of the listings of the runs that also analyse, by position:
\* no two of them share a folder.
AnalysisNames == << <<"J", " ", "D">>, <<"X">>, <<"Y">>, <<"Z">> >>

Folders ==
  {sanitize_name(n) : n \in (PersonNames \cup Range(AnalysisNames)) \ {<<>>}}

\* ----------------------------------------------------------------- listing
\* The data-id-document attribute of the k-th anchor of a sub-list
\* ("unknown" when the attribute is missing); every anchor text holds a year.
DocIdPool == <<"17", "unknown", "18", "19">>
Years == {"2021"}

\* An anchor of a person's sub-list: href present or not, the
\* data-id-document attribute (or "unknown") and the year label of its text.
Links == [href : BOOLEAN, doc_id : Range(DocIdPool), year : Years]

Filename(link) == <<"document", link.doc_id, link.year>>

\* The sub-lists of the listing: n anchors with distinct document ids, at
\* most one of them (the m-th, when m > 0) without an href.
LinkLists ==
  { [k \in 1..n |-> [href |-> (k # m), doc_id |-> DocIdPool[k], year |-> y]] :
      n \in 0..Min(MaxLinks, Len(DocIdPool)), m \in 0..MaxLinks, y \in Years }

\* A person item: its reconstructed name, whether it holds a sub-list, and
\* the anchors of that sub-list in markup order.
PersonItems ==
  { [name |-> n, sub_ul |-> u, links |-> l] :
      n \in PersonNames, u \in BOOLEAN, l \in LinkLists }

\* An item without a sub-list has no anchors; of the items with an empty
\* name, which are skipped before anything else is read, one stands for all.
WellFormedItem(p) ==
  /\ p.sub_ul = FALSE => p.links = <<>>
  /\ p.name = <<>> => (p.sub_ul = FALSE)

Listings == SeqsUpTo({p \in PersonItems : WellFormedItem(p)}, MaxPersons)

\* The listings of the runs that also analyse: k persons with distinct
\* folders, each with the same n anchors, all with an href.
AnalysisListings ==
  { [i \in 1..k |->
       [name |-> AnalysisNames[i], sub_ul |-> TRUE,
        links |-> [c \in 1..n |->
                     [href |-> TRUE, doc_id |-> DocIdPool[c], year |-> "2021"]]]] :
      k \in 0..Min(MaxPersons, Len(AnalysisNames)),
      n \in 1..Min(MaxLinks, Len(DocIdPool)) }

\* The listings of the runs whose files may be removed between two runs:
\* persons named out of three names, two of which differ by parentheses
\* only, each with n anchors that carry an href.
StoreNames == << <<"J", " ", "D">>, <<"J", " ", "(", "D", ")">>, <<"X">> >>

StoreListings ==
  SeqsUpTo(
    { [name |-> nm, sub_ul |-> TRUE,
       links |-> [c \in 1..n |->
                    [href |-> TRUE, doc_id |-> DocIdPool[c], year |-> "2021"]]] :
        nm \in Range(StoreNames), n \in 1..Min(MaxLinks, Len(DocIdPool)) },
    MaxPersons)

\* The value of a local that was never assigned.
Unbound == <<"unbound">>

\* A manifest file: absent, unparsable, or the dumped {name, documents}.
Absent == [state |-> "absent", name |-> <<>>, documents |-> <<>>]
Corrupt == [state |-> "corrupt", name |-> <<>>, documents |-> <<>>]
\* Mutants of ManifestOf: the dump loses its first document; the dump is
\* put off (nothing reaches the disk).
ManifestOfTail(name, documents) ==
  [state |-> "ok", name |-> name,
   documents |-> IF documents = <<>> THEN <<>> ELSE Tail(documents)]

ManifestOfLater(name, documents) == Absent

\* Mutant of ManifestOf: the documents are dumped last first.
ManifestOfReversed(name, documents) ==
  [state |-> "ok", name |-> name,
   documents |-> [i \in DOMAIN documents |->
                    documents[Len(documents) + 1 - i]]]

ManifestOf(name, documents) ==
  [state |-> "ok", name |-> name, documents |-> documents]


\* ------------------------------------------------------- analysis results
\* The texts analyze_pdf_with_gemini and analyze_multiple_pdfs_together
\* return, as sequences of words.
Message(kind) ==
  CASE kind = "no_key" ->
         <<"GOOGLE_API_KEY", "environment", "variable", "not", "found">>
    [] kind = "missing_package" -> <<"Missing", "required", "package">>
    [] kind = "error_gemini" -> <<"Error", "generating", "content">>
    [] kind = "analysis_failed" -> <<"Analysis", "failed">>
    [] OTHER -> <<"response", "text">>

StartsWith(text, prefix) ==
  Len(text) >= Len(prefix) /\ SubSeq(text, 1, Len(prefix)) = prefix

\* The test that guards save_analysis_files in analyze_pdfs_for_person.
SavesArtifacts(save_text_files, analysis_result) ==
  /\ save_text_files
  /\ ~StartsWith(analysis_result, <<"Error">>)
  /\ ~StartsWith(analysis_result, <<"Analysis", "failed">>)

\* What the AI collaborator does with a request, once one is made.
Outcomes == {"ok", "error_gemini", "analysis_failed"}

\* The value both analysis functions return: the import of the client
\* package comes first, then the credential check, then the call.
AnalysisResult(environment, outcome) ==
  IF environment = "no_package" THEN Message("missing_package")
  ELSE IF environment = "no_key" THEN Message("no_key")
  ELSE Message(outcome)

\* Mutant of MakesRequest: the credential check does not stop the call.
MakesRequestAnyway(environment, outcome) ==
  environment # "no_package" /\ outcome \in {"ok", "error_gemini"}

\* Whether generate_content is called ("analysis_failed" is an exception
\* raised before the request, such as the client constructor's).
MakesRequest(environment, outcome) ==
  environment = "ready" /\ outcome \in {"ok", "error_gemini"}

\* The files save_analysis_files writes for the PDF path with this stem:
\* pdf_path.replace('.pdf', '_analysis.txt') and '_analysis.json'.
AnalysisFiles(dir, stem) ==
  { <<dir, stem, "_analysis.txt">>, <<dir, stem, "_analysis.json">> }

\* The stem of the combined PDF path analyze_multiple_pdfs_together builds
\* ("<dir>_combined_analysis.pdf"), and the stem whose "_analysis" files
\* main() looks for before the combined call ("<person>_combined").
CombinedStem == <<"combined_analysis">>
CombinedCheckedStem == <<"combined">>

VARIABLES
  listing,          \* the person items of the registry page
  run,              \* number of runs of the program started so far
  args,             \* command-line flags of the current run
  environment,      \* AI client of the current run: no_package, no_key, ready
  pc,               \* position of the current run
  uncaught,         \* the exception that escaped main(), if any
  faults,           \* failed requests and raised exceptions in this run
  prev,             \* summary of the previous run
  dirs,             \* person directories on disk
  files,            \* PDF files on disk: <<folder, filename>>
  manifest,         \* folder -> manifest file of that person directory
  artifacts,        \* analysis files on disk: <<folder, stem, suffix>>
  aggregate,        \* the aggregate result file
  idx,              \* index of the person item being processed
  original_name,    \* local of main(): Unbound until first assigned
  folder_name,      \* local of main()
  pdf_links,        \* local of main()
  existing_files,   \* local of main()
  downloaded_files, \* local of main()
  j,                \* index of the link being processed
  status,           \* per person item: outcome of its pass in this run
  log,              \* per processed link of the current pass: what happened
  fetches,          \* number of PDF requests issued in this run
  todo_dirs,        \* person directories the analysis has still to visit
  cur_dir,          \* person directory being analysed
  todo_pdfs,        \* PDFs of cur_dir still to analyse
  cur_pdf,          \* PDF whose analysis result is about to be saved
  analysis_result,  \* local of analyze_pdfs_for_person
  results,          \* results gathered in memory: <<folder, key, text>>
  calls,            \* analysis calls made in this run: <<folder, key>>
  ai_requests,      \* generate_content requests made in this run
  agg_writes,       \* writes of the aggregate result file in this run
  called,           \* the function applied last on its own, "none" before
  argument,         \* its argument
  returned          \* the value it returned

\* The functions of the program applied on their own, outside a run.
pureVars == << called, argument, returned >>

runVars == << listing, run, args, environment, prev, pureVars >>
crawlFs == << dirs, files, manifest >>
locals == << original_name, folder_name, pdf_links, existing_files,
             downloaded_files, j, log >>
crawlVars == << crawlFs, idx, locals, status, fetches >>
analysisLocals == << todo_dirs, cur_dir, todo_pdfs, cur_pdf, analysis_result,
                     results >>
analysisVars == << artifacts, aggregate, analysisLocals, calls, ai_requests,
                   agg_writes >>

vars == << runVars, pc, uncaught, faults, crawlVars, analysisVars >>

\* The argument and the value of a function applied on its own: one field
\* for each function, empty for the others.
NoArgument ==
  [arg_name |-> <<>>, arg_attrs |-> {}, arg_text |-> <<>>,
   arg_children |-> <<>>, arg_response |-> <<>>]

NoValue ==
  [ret_key |-> <<>>, ret_doc_id |-> <<>>, ret_year |-> <<>>,
   ret_name |-> <<>>, ret_json |-> [kind |-> "none", content |-> <<>>,
                                    member |-> <<>>, full_text |-> <<>>]]

\* -------------------------------------------------------------------- args
None == <<>>

AllArgs ==
  [latest_only : BOOLEAN, skip_existing : BOOLEAN, analyze : BOOLEAN,
   analyze_only : BOOLEAN, person : {None, sanitize_name(AnalysisNames[1])},
   compare_all_person_pdfs : BOOLEAN, no_text_files : BOOLEAN,
   skip_analyzed : BOOLEAN]

Analyses(a) == a.analyze \/ a.analyze_only

\* One command line for each behaviour of main(): a flag main() never reads
\* under the others is left off.
Canonical(a) ==
  /\ a.analyze_only => ~a.analyze /\ ~a.latest_only /\ ~a.skip_existing
  /\ a.person = None => ~a.compare_all_person_pdfs
  /\ ~Analyses(a) =>
       /\ a.person = None
       /\ ~a.no_text_files
       /\ ~a.skip_analyzed

\* The command lines of the runs that only download.
CrawlArgs == {a \in AllArgs : Canonical(a) /\ ~Analyses(a)}

\* The command lines of the runs that also analyse.
\* The command lines of the runs that also analyse: their download section,
\* when it runs, runs with --skip-existing and without --latest-only.
FullArgs ==
  {a \in AllArgs :
     Canonical(a) /\ (~a.analyze_only => a.skip_existing /\ ~a.latest_only)}

Environments == {"no_package", "no_key", "ready"}

\* What a run remembers of the run before it: whether that run went through
\* the person loop in skip_existing mode, with which latest_only, and
\* whether it did so without a failed download or an exception.
NoPrev == [synced |-> FALSE, latest_only |-> FALSE, clean |-> FALSE]

Summary(synced, latest_only, clean) ==
  IF synced
  THEN [synced |-> TRUE, latest_only |-> latest_only, clean |-> clean]
  ELSE NoPrev

\* The aggregate result file: the keys of the mapping dumped into it.
NoAggregate == [written |-> FALSE, keys |-> {}]

InitWith(L) ==
  /\ listing \in L
  /\ run = 0
  /\ args \in {a \in CrawlArgs : ~a.latest_only /\ ~a.skip_existing}
  /\ environment = "ready"
  /\ pc = "idle"
  /\ uncaught = "none"
  /\ faults = 0
  /\ prev = NoPrev
  /\ dirs = {}
  /\ files = {}
  /\ manifest = [k \in Folders |-> Absent]
  /\ artifacts = {}
  /\ aggregate = NoAggregate
  /\ idx = 0
  /\ original_name = Unbound
  /\ folder_name = Unbound
  /\ pdf_links = <<>>
  /\ existing_files = <<>>
  /\ downloaded_files = <<>>
  /\ j = 0
  /\ status = [i \in DOMAIN listing |-> "pending"]
  /\ log = <<>>
  /\ fetches = 0
  /\ todo_dirs = {}
  /\ cur_dir = None
  /\ todo_pdfs = {}
  /\ cur_pdf = None
  /\ analysis_result = <<>>
  /\ results = {}
  /\ calls = {}
  /\ ai_requests = 0
  /\ agg_writes = 0
  /\ called = "none"
  /\ argument = NoArgument
  /\ returned = NoValue

Init == InitWith(AnalysisListings)

InitCrawl == InitWith(Listings)

Terminal == {"idle", "done", "aborted", "crashed"}

\* A new process: main() starts with the flags of its command line; with
\* --analyze-only the download section is not entered.
StartRunWith(A, E) ==
  /\ pc \in Terminal
  /\ run < MaxRuns
  /\ run' = run + 1
  /\ args' \in A
  /\ environment' \in (IF Analyses(args') THEN E ELSE {"ready"})
  /\ prev' = Summary(idx = Len(listing) + 1 /\ args.skip_existing,
                      args.latest_only, faults = 0)
  /\ pc' = IF args'.analyze_only THEN "analysis" ELSE "fetch"
  /\ uncaught' = "none"
  /\ faults' = 0
  /\ idx' = 0
  /\ original_name' = Unbound
  /\ folder_name' = Unbound
  /\ pdf_links' = <<>>
  /\ existing_files' = <<>>
  /\ downloaded_files' = <<>>
  /\ j' = 0
  /\ status' = [i \in DOMAIN listing |-> "pending"]
  /\ log' = <<>>
  /\ fetches' = 0
  /\ todo_dirs' = {}
  /\ cur_dir' = None
  /\ todo_pdfs' = {}
  /\ cur_pdf' = None
  /\ analysis_result' = <<>>
  /\ results' = {}
  /\ calls' = {}
  /\ ai_requests' = 0
  /\ agg_writes' = 0
  /\ UNCHANGED << listing, crawlFs, artifacts, aggregate, pureVars >>

StartRun == StartRunWith(FullArgs, Environments)

StartRunCrawl == StartRunWith(CrawlArgs, {"ready"})

\* ------------------------------------------------------------------- crawl
\* requests.get(PAGE_URL): on a RequestException main() returns.
FetchPage ==
  /\ pc = "fetch"
  /\ \/ pc' = "person" /\ idx' = 1
     \/ pc' = "aborted" /\ idx' = idx
  /\ UNCHANGED << runVars, uncaught, faults, crawlFs, locals, status, fetches,
                  analysisVars >>

\* The except clause of the person loop: its log line formats original_name.
\* Unbound, the handler itself raises UnboundLocalError, which nothing catches.
HandlerEscapes(name) == name = Unbound

PersonException ==
  /\ faults < MaxFaults
  /\ faults' = faults + 1
  /\ IF HandlerEscapes(original_name)
     THEN /\ pc' = "crashed"
          /\ uncaught' = "UnboundLocalError"
          /\ idx' = idx
          /\ status' = [status EXCEPT ![idx] = "crashed"]
     ELSE /\ pc' = "person"
          /\ uncaught' = uncaught
          /\ idx' = idx + 1
          /\ status' = [status EXCEPT ![idx] = "error"]

\* An exception while the name is being reconstructed.
NameRaises ==
  /\ pc = "person"
  /\ idx \in DOMAIN listing
  /\ PersonException
  /\ UNCHANGED << runVars, crawlFs, locals, fetches, analysisVars >>

\* Mutant of Truncate: the slice keeps the last anchor instead of the first.
TruncateLast(links, latest_only) ==
  IF latest_only /\ links # <<>>
    THEN SubSeq(links, Len(links), Len(links))
    ELSE links

\* pdf_links after the latest_only truncation.
Truncate(links, latest_only) ==
  IF latest_only THEN SubSeq(links, 1, Min(1, Len(links))) ELSE links

\* Name reconstruction, directory creation, sub-list lookup and truncation.
PersonBegin ==
  /\ pc = "person"
  /\ idx \in DOMAIN listing
  /\ LET p == listing[idx] IN
       IF p.name = <<>>
       THEN /\ status' = [status EXCEPT ![idx] = "empty_name"]
            /\ idx' = idx + 1
            /\ UNCHANGED << pc, crawlFs, locals >>
       ELSE /\ original_name' = p.name
            /\ folder_name' = sanitize_name(p.name)
            /\ dirs' = dirs \cup {sanitize_name(p.name)}
            /\ IF ~p.sub_ul
               THEN /\ status' = [status EXCEPT ![idx] = "no_links"]
                    /\ idx' = idx + 1
                    /\ UNCHANGED << pc, pdf_links >>
               ELSE /\ pdf_links' = Truncate(p.links, args.latest_only)
                    /\ pc' = "load"
                    /\ UNCHANGED << status, idx >>
            /\ UNCHANGED << files, manifest, existing_files, downloaded_files,
                            j, log >>
  /\ UNCHANGED << runVars, uncaught, faults, fetches, analysisVars >>

\* Mutant of JsonPath: one manifest file for all the persons.
JsonPathShared(folder) == sanitize_name(AnalysisNames[1])

\* json_path: the manifest of a person is a file of the person's directory,
\* named after it.
JsonPath(folder) == folder

\* The manifest read in skip_existing mode; a malformed file is ignored.
LoadedDocuments(m, skip_existing) ==
  IF skip_existing /\ m.state = "ok" THEN m.documents ELSE <<>>

LoadManifest ==
  /\ pc = "load"
  /\ downloaded_files' = <<>>
  /\ existing_files' =
       LoadedDocuments(manifest[JsonPath(folder_name)], args.skip_existing)
  /\ j' = 1
  /\ log' = <<>>
  /\ pc' = "links"
  /\ UNCHANGED << runVars, uncaught, faults, crawlFs, idx, original_name,
                  folder_name, pdf_links, status, fetches, analysisVars >>

\* Mutants of SkipsDownload: the existence test dropped, and inverted.
SkipsDownloadNever(exists, skip_existing) == FALSE

SkipsDownloadInverted(exists, skip_existing) == skip_existing /\ ~exists

\* download_pdf returns without a request when the file is there.
SkipsDownload(exists, skip_existing) == skip_existing /\ exists

\* Mutant of Documented: every document passes for documented.
DocumentedAlways(filename, existing, skip_existing) == TRUE

\* The "already documented" test of the link loop.
Documented(filename, existing, skip_existing) ==
  filename \in Range(existing) /\ skip_existing

\* What one iteration of the link loop did: the state of the document when
\* the iteration began, whether a request was made and whether the
\* iteration ended in the sleep.
Event(link, kind, fetched, slept) ==
  [href |-> link.href, filename |-> Filename(link),
   existed |-> <<folder_name, Filename(link)>> \in files,
   in_manifest |-> Filename(link) \in Range(existing_files),
   kind |-> kind, fetched |-> fetched, slept |-> slept]

\* One iteration of the link loop that makes no request.
ProcessLinkLocal ==
  /\ pc = "links"
  /\ j \in DOMAIN pdf_links
  /\ LET link == pdf_links[j] IN
       IF ~link.href
       THEN /\ log' = Append(log, Event(link, "no_href", FALSE, FALSE))
            /\ UNCHANGED downloaded_files
       ELSE IF Documented(Filename(link), existing_files, args.skip_existing)
       THEN /\ downloaded_files' = Append(downloaded_files, Filename(link))
            /\ log' = Append(log, Event(link, "documented", FALSE, FALSE))
       ELSE /\ SkipsDownload(<<folder_name, Filename(link)>> \in files,
                             args.skip_existing)
            /\ downloaded_files' = Append(downloaded_files, Filename(link))
            /\ log' = Append(log, Event(link, "file_exists", FALSE, TRUE))
  /\ j' = j + 1
  /\ UNCHANGED << runVars, pc, uncaught, faults, crawlFs, idx, original_name,
                  folder_name, pdf_links, existing_files, status, fetches,
                  analysisVars >>

\* One iteration that calls requests.get for the PDF.
ProcessLinkFetch ==
  /\ pc = "links"
  /\ j \in DOMAIN pdf_links
  /\ LET link == pdf_links[j] IN
        /\ link.href
        /\ ~Documented(Filename(link), existing_files, args.skip_existing)
        /\ ~SkipsDownload(<<folder_name, Filename(link)>> \in files,
                          args.skip_existing)
        /\ fetches' = fetches + 1
        /\ \/ \* the response is written to the file
              /\ files' = files \cup {<<folder_name, Filename(link)>>}
              /\ downloaded_files' = Append(downloaded_files, Filename(link))
              /\ log' = Append(log, Event(link, "downloaded", TRUE, TRUE))
              /\ j' = j + 1
              /\ UNCHANGED << pc, uncaught, idx, status, faults >>
           \/ \* requests.RequestException: download_pdf returns False
              /\ faults < MaxFaults
              /\ faults' = faults + 1
              /\ log' = Append(log, Event(link, "failed", TRUE, TRUE))
              /\ j' = j + 1
              /\ UNCHANGED << pc, uncaught, idx, status, files,
                              downloaded_files >>
           \/ \* open() of the target file raises OSError
              /\ log' = Append(log, Event(link, "raised", TRUE, FALSE))
              /\ PersonException
              /\ UNCHANGED << files, downloaded_files, j >>
  /\ UNCHANGED << runVars, dirs, manifest, original_name, folder_name,
                  pdf_links, existing_files, analysisVars >>

\* json.dump of {name, documents} after the link loop.
WriteManifest ==
  /\ pc = "links"
  /\ j = Len(pdf_links) + 1
  /\ \/ /\ manifest' = [manifest EXCEPT ![JsonPath(folder_name)] =
                          ManifestOf(original_name, downloaded_files)]
        /\ status' = [status EXCEPT ![idx] = "done"]
        /\ idx' = idx + 1
        /\ pc' = "person"
        /\ UNCHANGED << uncaught, faults >>
     \/ \* the file is opened (truncated) and the dump raises
        /\ manifest' = [manifest EXCEPT ![JsonPath(folder_name)] = Corrupt]
        /\ PersonException
  /\ UNCHANGED << runVars, dirs, files, locals, fetches, analysisVars >>

\* The person loop is over: the analysis section follows when asked for.
FinishCrawl ==
  /\ pc = "person"
  /\ idx = Len(listing) + 1
  /\ pc' = IF args.analyze THEN "analysis" ELSE "done"
  /\ UNCHANGED << runVars, uncaught, faults, crawlVars, analysisVars >>

\* Between two runs a PDF file is removed from the output directory (by
\* its owner, not by the program).
RemoveFile ==
  /\ pc \in Terminal \ {"idle"}
  /\ run < MaxRuns
  /\ \E f \in files : files' = files \ {f}
  /\ UNCHANGED << runVars, pc, uncaught, faults, dirs, manifest, idx, locals,
                  status, fetches, analysisVars >>

\* ---------------------------------------------------------------- analysis
PdfsIn(dir) == {f \in {x[2] : x \in files} : <<dir, f>> \in files}

\* analysis_files_exist with require_both=False.
analysis_files_exist(dir, stem) == AnalysisFiles(dir, stem) \cap artifacts # {}

\* The PDFs analyze_pdfs_for_person goes through.
PdfsToAnalyse(dir, skip_analyzed) ==
  IF skip_analyzed
  THEN {f \in PdfsIn(dir) : ~analysis_files_exist(dir, f)}
  ELSE PdfsIn(dir)

\* analyze_pdfs_for_person is entered for this directory.
EnterPerson(dir) ==
  /\ cur_dir' = dir
  /\ todo_pdfs' = PdfsToAnalyse(dir, args.skip_analyzed)
  /\ pc' = "pdfs"

\* The head of the analysis section: which of its three branches runs.
\* os.listdir of an output directory that was never created raises.
AnalysisBegin ==
  /\ pc = "analysis"
  /\ IF args.person # None
     THEN /\ IF args.person \notin dirs
             THEN pc' = "done" /\ UNCHANGED << cur_dir, todo_pdfs >>
             ELSE IF args.compare_all_person_pdfs
             THEN pc' = "compare" /\ cur_dir' = args.person
                  /\ UNCHANGED todo_pdfs
             ELSE EnterPerson(args.person)
          /\ UNCHANGED << todo_dirs, uncaught >>
     ELSE IF dirs = {}
     THEN /\ pc' = "crashed"
          /\ uncaught' = "FileNotFoundError"
          /\ UNCHANGED << todo_dirs, cur_dir, todo_pdfs >>
     ELSE /\ todo_dirs' = dirs
          /\ pc' = "dirs"
          /\ UNCHANGED << cur_dir, todo_pdfs, uncaught >>
  /\ UNCHANGED << runVars, faults, crawlVars, artifacts, aggregate, cur_pdf,
                  analysis_result, results, calls, ai_requests, agg_writes >>

\* The loop of analyze_pdfs_for_all_persons takes the next directory.
NextDir ==
  /\ pc = "dirs"
  /\ \E d \in todo_dirs :
       /\ todo_dirs' = todo_dirs \ {d}
       /\ EnterPerson(d)
  /\ UNCHANGED << runVars, uncaught, faults, crawlVars, artifacts, aggregate,
                  cur_pdf, analysis_result, results, calls, ai_requests,
                  agg_writes >>

\* The outcomes the fault budget of the run still allows.
AllowedOutcomes ==
  IF environment = "ready" /\ faults < MaxFaults THEN Outcomes ELSE {"ok"}

\* The loop of analyze_pdfs_for_person calls analyze_pdf_with_gemini.
AnalyzeCall ==
  /\ pc = "pdfs"
  /\ \E f \in todo_pdfs, o \in AllowedOutcomes :
       /\ cur_pdf' = f
       /\ analysis_result' = AnalysisResult(environment, o)
       /\ results' = results \cup
                       {<<cur_dir, f, AnalysisResult(environment, o)>>}
       /\ calls' = calls \cup {<<cur_dir, f>>}
       /\ ai_requests' =
            ai_requests + (IF MakesRequest(environment, o) THEN 1 ELSE 0)
       /\ faults' =
            faults + (IF environment = "ready" /\ o # "ok" THEN 1 ELSE 0)
  /\ pc' = "save"
  /\ UNCHANGED << runVars, uncaught, crawlVars, artifacts, aggregate,
                  todo_dirs, cur_dir, todo_pdfs, agg_writes >>

\* The rest of the loop body: save_analysis_files, when the guard lets it.
SaveArtifacts ==
  /\ pc = "save"
  /\ artifacts' =
       IF SavesArtifacts(~args.no_text_files, analysis_result)
       THEN artifacts \cup AnalysisFiles(cur_dir, cur_pdf)
       ELSE artifacts
  /\ todo_pdfs' = todo_pdfs \ {cur_pdf}
  /\ pc' = "pdfs"
  /\ UNCHANGED << runVars, uncaught, faults, crawlVars, aggregate, todo_dirs,
                  cur_dir, cur_pdf, analysis_result, results, calls,
                  ai_requests, agg_writes >>

\* analyze_pdfs_for_person returns: to the loop over the directories, or
\* to main(), which saves the results of the one person if there are any.
PersonEnd ==
  /\ pc = "pdfs"
  /\ todo_pdfs = {}
  /\ pc' = IF args.person = None THEN "dirs"
           ELSE IF results # {} THEN "aggregate" ELSE "done"
  /\ UNCHANGED << runVars, uncaught, faults, crawlVars, analysisVars >>

\* analyze_pdfs_for_all_persons returns.
DirsEnd ==
  /\ pc = "dirs"
  /\ todo_dirs = {}
  /\ pc' = "aggregate"
  /\ UNCHANGED << runVars, uncaught, faults, crawlVars, analysisVars >>

\* The combined analysis is skipped when its files are found.
SkipsCombined(dir, skip_analyzed) ==
  skip_analyzed /\ analysis_files_exist(dir, CombinedCheckedStem)

\* The --compare-all-person-pdfs branch: one call for all PDFs of the person.
Compare ==
  /\ pc = "compare"
  /\ IF ~SkipsCombined(cur_dir, args.skip_analyzed) /\ PdfsIn(cur_dir) # {}
     THEN \E o \in AllowedOutcomes :
            LET text == AnalysisResult(environment, o) IN
              /\ analysis_result' = text
              /\ results' = {<<cur_dir, "combined_analysis", text>>}
              /\ calls' = calls \cup {<<cur_dir, "combined_analysis">>}
              /\ ai_requests' =
                   ai_requests + (IF MakesRequest(environment, o) THEN 1 ELSE 0)
              /\ faults' =
                   faults + (IF environment = "ready" /\ o # "ok" THEN 1 ELSE 0)
              /\ artifacts' =
                   IF environment = "ready" /\ o = "ok" /\ ~args.no_text_files
                   THEN artifacts \cup AnalysisFiles(cur_dir, CombinedStem)
                   ELSE artifacts
              /\ pc' = "aggregate"
     ELSE /\ pc' = "done"
          /\ UNCHANGED << analysis_result, results, calls, ai_requests, faults,
                          artifacts >>
  /\ UNCHANGED << runVars, uncaught, crawlVars, aggregate, todo_dirs, cur_dir,
                  todo_pdfs, cur_pdf, agg_writes >>

\* save_analysis_results: the aggregate file is written from the results.
SaveAggregate ==
  /\ pc = "aggregate"
  /\ aggregate' = [written |-> TRUE, keys |-> {<<r[1], r[2]>> : r \in results}]
  /\ agg_writes' = agg_writes + 1
  /\ pc' = "done"
  /\ UNCHANGED << runVars, uncaught, faults, crawlVars, artifacts,
                  analysisLocals, calls, ai_requests >>

\* ------------------------------------------------- functions on their own
\* Everything but the three variables of a function applied on its own.
programVars == << listing, run, args, environment, prev, pc, uncaught, faults,
                  crawlVars, analysisVars >>

\* No function has been applied yet.
NotCalled == called = "none"

\* A function of the program is applied to an argument, outside any run.
Apply(fn, arg, value) ==
  /\ called' = fn
  /\ argument' = arg
  /\ returned' = value
  /\ UNCHANGED programVars

\* The names sanitize_name is applied to: every short string of letters,
\* parentheses, blanks, tabs and underscores, and the name of the example.
NameChars == {"a", "(", ")", " ", "\t", "_"}

JeanDupontTremblay ==
  <<"J", "e", "a", "n", " ", "(", "D", "u", "p", "o", "n", "t", ")", " ", " ",
    "T", "r", "e", "m", "b", "l", "a", "y">>

NameInputs == SeqsUpTo(NameChars, MaxName) \cup {JeanDupontTremblay}

CallSanitizeName ==
  /\ NotCalled
  /\ \E name \in NameInputs :
       Apply("sanitize_name", [NoArgument EXCEPT !.arg_name = name],
             [NoValue EXCEPT !.ret_key = sanitize_name(name)])

\* The fields of a document taken from its anchor: the data-id-document
\* attribute, and the year label searched in the text of the anchor with
\* \d{4}(?:-\d{4})?.
Digits == {"0", "1", "2", "3", "4", "5", "6", "7", "8", "9"}

DigitsAt(text, i, n) ==
  /\ i + n - 1 <= Len(text)
  /\ \A k \in i..(i + n - 1) : text[k] \in Digits

Unknown == <<"u", "n", "k", "n", "o", "w", "n">>

\* Mutant of MatchEnd: the optional group is never taken.
MatchEndWithoutRange(text, i) == i + 3

\* The position where the match that begins at i ends: the optional group
\* (a hyphen and four digits) is taken whenever it is there.
MatchEnd(text, i) ==
  IF i + 4 <= Len(text) /\ text[i + 4] = "-" /\ DigitsAt(text, i + 5, 4)
  THEN i + 8
  ELSE i + 3

\* re.search: the match at the leftmost position where there is one.
RECURSIVE Search(_, _)
Search(text, i) ==
  IF i > Len(text) THEN <<>>
  ELSE IF DigitsAt(text, i, 4) THEN SubSeq(text, i, MatchEnd(text, i))
  ELSE Search(text, i + 1)

Year(text) == IF Search(text, 1) = <<>> THEN Unknown ELSE Search(text, 1)

\* link.get('data-id-document', 'unknown').
DocId(attrs) ==
  IF \E p \in attrs : p[1] = "data-id-document"
  THEN (CHOOSE p \in attrs : p[1] = "data-id-document")[2]
  ELSE Unknown

\* The texts of the anchors: every short string of a digit, the hyphen and
\* a letter, and the examples.
TextChars == {"7", "-", "x"}

Text20212022 == <<"2", "0", "2", "1", "-", "2", "0", "2", "2">>
TextDeclaration2020 ==
  <<"D", "e", "c", "l", "a", "r", "a", "t", "i", "o", "n", " ",
    "2", "0", "2", "0">>
TextDeclaration == <<"D", "e", "c", "l", "a", "r", "a", "t", "i", "o", "n">>

AnchorTexts ==
  SeqsUpTo(TextChars, MaxText)
    \cup {Text20212022, TextDeclaration2020, TextDeclaration}

\* The attributes of an anchor, as pairs of a name and a value: with or
\* without the document id (which may be the empty string).
AnchorAttrs ==
  { {<<"href", <<"u">>>>} } \cup
  { {<<"href", <<"u">>>>, <<"data-id-document", id>>} :
      id \in {<<>>, <<"1", "7">>} }

CallLinkFields ==
  /\ NotCalled
  /\ \E t \in AnchorTexts, a \in AnchorAttrs :
       Apply("link_fields",
             [NoArgument EXCEPT !.arg_attrs = a, !.arg_text = t],
             [NoValue EXCEPT !.ret_doc_id = DocId(a), !.ret_year = Year(t)])

\* The children of a person item, in markup order.  A child is a string
\* (NavigableString), a span, a br, another element (a, div) or the ul; a
\* span or a div may wrap a nested list.  The letter of a child tells its
\* position, and ListContent is the text inside a nested list.
ChildLetters == <<"a", "b", "c", "d">>
ListContent == <<"L">>

ChildStrings(k) ==
  LET x == ChildLetters[k]
  IN {<<>>, <<" ">>, <<x>>, <<" ", x, " ">>}

ChildrenAt(k) ==
  { [tag |-> t, string |-> x, wraps_list |-> w] :
      t \in {"text", "span", "br", "a", "div", "ul"},
      x \in ChildStrings(k), w \in BOOLEAN }

\* A string and an a wrap nothing, a br is empty, and the ul is the list.
WellFormedChild(c) ==
  /\ c.tag \in {"text", "a", "br"} => ~c.wraps_list
  /\ c.tag \in {"br", "ul"} => c.string = <<>>
  /\ c.tag = "ul" => c.wraps_list

WellFormedAt(k) == {c \in ChildrenAt(k) : WellFormedChild(c)}

RECURSIVE ChildListsOf(_)
ChildListsOf(n) ==
  IF n = 0 THEN {<<>>}
  ELSE {Append(cs, c) : cs \in ChildListsOf(n - 1), c \in WellFormedAt(n)}

ChildLists ==
  UNION {ChildListsOf(n) : n \in 0..Min(MaxChildren, Len(ChildLetters))}

\* str.strip().
RECURSIVE StripRight(_)
StripRight(s) ==
  IF s # <<>> /\ s[Len(s)] \in Whitespace
  THEN StripRight(SubSeq(s, 1, Len(s) - 1))
  ELSE s

Strip(s) == StripRight(SkipWhitespace(s))

\* get_text(strip=True) of an element: its strings, stripped, one after
\* the other; those of a list it wraps are among them.
GetText(c) ==
  Strip(c.string) \o (IF c.wraps_list THEN ListContent ELSE <<>>)

\* What a child adds to name_parts.
Fragment(c) ==
  IF c.tag = "text" THEN Strip(c.string)
  ELSE IF c.tag \in {"span", "br"} THEN GetText(c)
  ELSE <<>>

\* The children the loop goes through: it breaks at the first child that
\* is a ul.
RECURSIVE BeforeChildList(_)
BeforeChildList(children) ==
  IF children = <<>> \/ Head(children).tag = "ul" THEN <<>>
  ELSE <<Head(children)>> \o BeforeChildList(Tail(children))

\* ' '.join(name_parts)
RECURSIVE Join(_)
Join(parts) ==
  IF parts = <<>> THEN <<>>
  ELSE IF Len(parts) = 1 THEN parts[1]
  ELSE parts[1] \o <<" ">> \o Join(Tail(parts))

ReconstructName(children) ==
  LET before == BeforeChildList(children)
      fragments == [k \in DOMAIN before |-> Fragment(before[k])]
      name_parts == SelectSeq(fragments, LAMBDA f : f # <<>>)
  IN Strip(Join(name_parts))

\* person_li.find('ul'): the position of the first child that is, or
\* wraps, a nested list (0 when there is none).
FindList(children) ==
  LET at == {k \in DOMAIN children : children[k].wraps_list}
  IN IF at = {} THEN 0 ELSE CHOOSE k \in at : \A m \in at : k <= m

CallReconstructName ==
  /\ NotCalled
  /\ \E children \in ChildLists :
       Apply("reconstruct_name", [NoArgument EXCEPT !.arg_children = children],
             [NoValue EXCEPT !.ret_name = ReconstructName(children)])

\* The text of a response, as a sequence of tokens: the opening fence
\* (three backquotes and json), the fence (three backquotes), the braces,
\* a quoted key with its colon, the JSON value null, and the words of a
\* member name (member, a colon, a quoted name), which the pattern for the
\* member name matches and which are not JSON.
Tokens == {"fence_json", "fence", "{", "}", "k:", "null", "member"}

Responses == SeqsUpTo(Tokens, MaxTokens)

\* What json.loads makes of a text: null, an object (empty, or of one key
\* and a value), or a JSONDecodeError.
JsonError == [kind |-> "error", content |-> <<>>]

RECURSIVE JsonLoads(_)
JsonLoads(t) ==
  IF t = <<"null">> THEN [kind |-> "null", content |-> t]
  ELSE IF t = <<"{", "}">> THEN [kind |-> "object", content |-> t]
  ELSE IF /\ Len(t) >= 4
          /\ t[1] = "{" /\ t[2] = "k:" /\ t[Len(t)] = "}"
          /\ JsonLoads(SubSeq(t, 3, Len(t) - 1)).kind # "error"
       THEN [kind |-> "object", content |-> t]
       ELSE JsonError

\* The first match of the pattern of the fenced block: from the first
\* opening fence to the first three backquotes after it, which may be the
\* beginning of another opening fence.  The value is <<TRUE, group>> or <<FALSE, <<>>>>.
FencedMatch(text) ==
  LET opens == {i \in DOMAIN text :
                  /\ text[i] = "fence_json"
                  /\ \E m \in (i + 1)..Len(text) : text[m] \in {"fence", "fence_json"}}
  IN IF opens = {} THEN <<FALSE, <<>>>>
     ELSE LET i == CHOOSE x \in opens : \A y \in opens : x <= y
              closes == {m \in (i + 1)..Len(text) :
                           text[m] \in {"fence", "fence_json"}}
              e == CHOOSE x \in closes : \A y \in closes : x <= y
          IN <<TRUE, SubSeq(text, i + 1, e - 1)>>

\* The first match of the pattern of the object: from the first brace that
\* a quoted key follows to the last closing brace of the text.
ObjectMatch(text) ==
  LET opens == {i \in DOMAIN text :
                  /\ text[i] = "{"
                  /\ i + 1 <= Len(text) /\ text[i + 1] = "k:"
                  /\ \E m \in (i + 2)..Len(text) : text[m] = "}"}
  IN IF opens = {} THEN <<FALSE, <<>>>>
     ELSE LET i == CHOOSE x \in opens : \A y \in opens : x <= y
              closes == {m \in (i + 2)..Len(text) : text[m] = "}"}
              e == CHOOSE x \in closes : \A y \in closes : x >= y
          IN <<TRUE, SubSeq(text, i, e)>>

\* The value json.loads has returned, as extract_json_from_text returns it.
Parsed(v) ==
  [kind |-> v.kind, content |-> v.content, member |-> <<>>,
   full_text |-> <<>>]

\* get_json_template() with full_text set, and member when it was found.
Template(member, text) ==
  [kind |-> "template", content |-> <<>>, member |-> member,
   full_text |-> text]

\* return json.loads(...) inside the try: the except clause gives the
\* template with the text.
Loaded(v, text) ==
  IF v.kind = "error" THEN Template(<<>>, text) ELSE Parsed(v)

extract_json_from_text(text) ==
  IF FencedMatch(text)[1] THEN Loaded(JsonLoads(FencedMatch(text)[2]), text)
  ELSE IF ObjectMatch(text)[1]
  THEN Loaded(JsonLoads(ObjectMatch(text)[2]), text)
  ELSE Template(IF "member" \in Range(text) THEN <<"X">> ELSE <<>>, text)

CallExtractJson ==
  /\ NotCalled
  /\ \E text \in Responses :
       Apply("extract_json_from_text",
             [NoArgument EXCEPT !.arg_response = text],
             [NoValue EXCEPT !.ret_json = extract_json_from_text(text)])

\* ------------------------------------------------------------------ claims
\* The manifest of the person item before the current one was just written:
\* the locals of main() are still those of that person's pass.
JustWrote == pc = "person" /\ idx > 1 /\ status[idx - 1] = "done"

\* The filenames of the anchors with an href among these links.
HrefFilenames(links) ==
  {Filename(links[i]) : i \in {k \in DOMAIN links : links[k].href}}

C2_ManifestNeverShrinks ==
  [][\A k \in Folders :
       (manifest[k].state = "ok" /\ manifest'[k].state = "ok")
         => Range(manifest[k].documents) \subseteq Range(manifest'[k].documents)
    ]_vars

\* C2 (amended): in skip_existing mode, a manifest that is rewritten keeps
\* every filename it held that is the filename of an anchor (with an href)
\* of the document list the pass goes through: the person's whole list, or
\* its first anchor under latest_only.
C2_ManifestKeepsListedDocuments ==
  [][\A k \in Folders :
       (args.skip_existing /\ manifest'[k] # manifest[k]
          /\ manifest[k].state = "ok" /\ manifest'[k].state = "ok")
         => \A f \in Range(manifest[k].documents) :
              f \in HrefFilenames(pdf_links)
                => f \in Range(manifest'[k].documents)
    ]_vars

\* A manifest was rewritten in skip_existing mode and kept a document that
\* the manifest before it listed.
C2_Witness ==
  /\ JustWrote
  /\ args.skip_existing
  /\ existing_files # <<>>
  /\ \E i \in DOMAIN log : log[i].kind = "documented"
  /\ Range(existing_files) \subseteq Range(manifest[folder_name].documents)

\* C3: in skip_existing mode no request is made for a document (an anchor
\* with an href) whose file was on disk or whose filename was in the loaded
\* manifest when its turn came; the document is in downloaded_files, which
\* is what the manifest written at the end of the pass lists.
C3_SatisfiedDocumentNotFetched ==
  args.skip_existing =>
    /\ \A i \in DOMAIN log :
         (log[i].href /\ (log[i].existed \/ log[i].in_manifest))
           => /\ ~log[i].fetched
              /\ log[i].filename \in Range(downloaded_files)
    /\ JustWrote => manifest[folder_name].documents = downloaded_files

\* A pass in skip_existing mode skipped a document found on disk and one
\* found in the manifest, and wrote its manifest.
C3_Witness ==
  /\ args.skip_existing
  /\ JustWrote
  /\ \E i \in DOMAIN log : log[i].kind = "file_exists"
  /\ \E i \in DOMAIN log : log[i].kind = "documented"

\* C4 (as stated): under latest_only the document list is cut to exactly
\* one anchor, the first, before the manifest is read.
C4_TruncatedToExactlyOne ==
  (pc = "load" /\ args.latest_only)
    => Len(pdf_links) = 1 /\ pdf_links[1] = listing[idx].links[1]

\* C4 (amended): under latest_only a list of N >= 1 anchors is cut to its
\* first anchor and an empty list stays empty (min(1, N) anchors), before
\* the manifest is read (pc = "load") and for the whole link loop.
C4_TruncatedToFirstIfAny ==
  (pc \in {"load", "links"} /\ args.latest_only)
    => /\ Len(pdf_links) = Min(1, Len(listing[idx].links))
       /\ Len(listing[idx].links) >= 1 => pdf_links[1] = listing[idx].links[1]

\* A list of two anchors was cut to one, and the manifest is yet to be read.
C4_Witness ==
  /\ pc = "load"
  /\ args.latest_only
  /\ Len(listing[idx].links) = 2
  /\ pdf_links = <<listing[idx].links[1]>>

\* C5: in skip_existing mode, the iteration that skips a document because
\* its file is on disk does not sleep.
C5_SkippedDocumentDoesNotSleep ==
  args.skip_existing =>
    \A i \in DOMAIN log :
      (log[i].href /\ log[i].existed /\ ~log[i].fetched) => ~log[i].slept

\* C6 (as stated): every person item whose pass has finished (with or
\* without a nested list) has a manifest holding a {name, documents} on disk.
C6_EveryFinishedPersonHasManifest ==
  \A i \in DOMAIN status :
    (i < idx /\ status[i] \in {"done", "no_links"})
      => manifest[sanitize_name(listing[i].name)].state = "ok"

\* C6 (amended): when the pass of a person item with a nested list has gone
\* through its link loop, the manifest holding the name and the documents of
\* that pass is on disk before the next person item is looked at; an item
\* without a nested list finishes without a manifest being written.
C6_ManifestWrittenBeforeNextPerson ==
  JustWrote =>
    /\ manifest[folder_name] =
         [state |-> "ok", name |-> listing[idx - 1].name,
          documents |-> downloaded_files]
    /\ folder_name = sanitize_name(listing[idx - 1].name)
    /\ Len(downloaded_files) =
         Cardinality({i \in DOMAIN log :
                        log[i].kind \in {"documented", "file_exists", "downloaded"}})

\* The first person's manifest, with a document in it, is on disk and the
\* second person item has not been looked at yet.
C6_Witness ==
  /\ JustWrote
  /\ idx = 2
  /\ idx \in DOMAIN listing
  /\ status[2] = "pending"
  /\ downloaded_files # <<>>
  /\ manifest[folder_name].documents = downloaded_files

\* C9: an exception raised while a person item is processed never escapes
\* the loop: the run ends only after every person item has had its turn.
C9_PersonExceptionIsContained ==
  /\ uncaught # "UnboundLocalError"
  /\ pc \in {"done", "crashed"} => \A i \in DOMAIN status : status[i] # "pending"

\* The analysis section of the current run has run to its end.
AnalysisOver == pc = "done" /\ Analyses(args)

\* The person directories the analysis section goes through.
AnalysisScope == IF args.person = None THEN dirs ELSE {args.person} \cap dirs

\* C7: the aggregate result file is written once, when the pass is over,
\* and at every point of the pass every document analysed with success,
\* but the one whose result is about to be saved, has an analysis file on
\* disk, under every combination of flags.
C7_EarlierArtifactsAreOnDisk ==
  /\ agg_writes <= 1
  /\ agg_writes = 1 => pc = "done"
  /\ (AnalysisOver /\ calls # {}) => agg_writes = 1
  /\ \A r \in results :
       (r[2] # "combined_analysis" /\ r[3] = Message("ok")
          /\ ~(pc = "save" /\ r[1] = cur_dir /\ r[2] = cur_pdf))
         => analysis_files_exist(r[1], r[2])

\* C8: when the fetch of the listing page fails nothing is processed,
\* fetched, written or analysed; and no other error ends a run early.
C8_OnlyRootPageFailureEndsRun ==
  /\ pc = "aborted" =>
       /\ \A i \in DOMAIN status : status[i] = "pending"
       /\ fetches = 0
       /\ calls = {}
       /\ agg_writes = 0
  /\ pc # "crashed"

\* C10: without the AI credential every analysis call, of one document or
\* of several, returns the text that names the missing variable, makes no
\* request and does not raise; and the pass still makes the call for every
\* document of every person directory in its scope (all but those that
\* skip_analyzed filters out).
C10_MissingCredentialIsPerCall ==
  environment = "no_key" =>
    /\ ai_requests = 0
    /\ \A r \in results :
         r[3] = Message("no_key") /\ "GOOGLE_API_KEY" \in Range(r[3])
    /\ pc = "crashed" => calls = {}
    /\ (AnalysisOver /\ ~args.compare_all_person_pdfs) =>
         \A d \in AnalysisScope : \A f \in PdfsIn(d) :
           \/ <<d, f>> \in calls /\ \E r \in results : r[1] = d /\ r[2] = f
           \/ args.skip_analyzed /\ analysis_files_exist(d, f)
    /\ (AnalysisOver /\ args.compare_all_person_pdfs) =>
         \A d \in AnalysisScope :
           (PdfsIn(d) # {} /\ ~SkipsCombined(d, args.skip_analyzed))
             => <<d, "combined_analysis">> \in calls

\* Without the credential, a pass over two person directories with two
\* PDFs each has made all four calls and no request.
C10_Witness ==
  /\ environment = "no_key"
  /\ AnalysisOver
  /\ args.person = None
  /\ Cardinality(calls) = 4
  /\ Cardinality({c[1] : c \in calls}) = 2
  /\ ai_requests = 0

\* Without the credential, the combined call was made and returned.
C10_WitnessCombined ==
  /\ environment = "no_key"
  /\ AnalysisOver
  /\ calls = {<<args.person, "combined_analysis">>}

\* The analysis files of the subject of a call: of the document, or the
\* files the combined call itself writes.
ArtifactsOfCall(c) ==
  IF c[2] = "combined_analysis"
  THEN AnalysisFiles(c[1], CombinedStem) \cap artifacts
  ELSE AnalysisFiles(c[1], c[2]) \cap artifacts

\* C11: in skip_analyzed mode no analysis call is made for a document that
\* has an analysis file (text, structured or both), and the combined call
\* is not made when the files of a combined analysis are on disk; a
\* document without analysis files is still analysed.
C11_ExistingArtifactMeansNoCall ==
  /\ [][args.skip_analyzed =>
          \A c \in calls' \ calls : ArtifactsOfCall(c) = {}]_vars
  /\ [](~(AnalysisOver /\ ~args.compare_all_person_pdfs) \/
          \A d \in AnalysisScope : \A f \in PdfsIn(d) :
            <<d, f>> \in calls \/ analysis_files_exist(d, f))

\* C11, the part about single documents alone: it holds.
C11_AnalysedDocumentIsSkipped ==
  [][args.skip_analyzed =>
       \A c \in calls' \ calls :
         c[2] # "combined_analysis" => ArtifactsOfCall(c) = {}]_vars

\* C17: the analysis files of a document are written only when the call
\* for it succeeded: the step that follows a call which returned an error
\* result (missing credential, missing package, failed request) writes no
\* file.
C17_ErrorResultWritesNoArtifact ==
  [][(pc = "save" /\ analysis_result # Message("ok"))
       => artifacts' = artifacts]_vars

\* The filenames the link loop has put into downloaded_files, as the log
\* of the pass tells them: those of the iterations that skipped or
\* downloaded a document, in the order of the iterations.
RecordedFilenames(events) ==
  LET kept == SelectSeq(events, LAMBDA e :
                e.kind \in {"documented", "file_exists", "downloaded"})
  IN [i \in DOMAIN kept |-> kept[i].filename]

\* A person item that gets a record: it has a name and a nested list.
HasRecord(p) == p.name # <<>> /\ p.sub_ul

\* C13 (as stated): a listing of N person items yields exactly N person
\* records: at the end of the person loop every item has its record.
C13_EveryItemYieldsRecord ==
  (pc = "done" /\ idx = Len(listing) + 1)
    => \A i \in DOMAIN listing : status[i] = "done"

\* C13 (amended): the items are handled one by one in markup order; an item
\* yields a record only if it has a name and a nested list, and it does
\* when its pass raises no exception; the record carries the name of the
\* item, and its documents are those of the anchors of the (truncated)
\* nested list that have an href and were skipped or downloaded, in markup
\* order.
C13_RecordsFollowMarkupOrder ==
  /\ \A i \in DOMAIN status :
       /\ i < idx => status[i] # "pending"
       /\ i > idx => status[i] = "pending"
       /\ status[i] = "done" => HasRecord(listing[i])
       /\ (i < idx /\ HasRecord(listing[i])) => status[i] \in {"done", "error"}
  /\ pc = "links" =>
       /\ Len(log) = j - 1
       /\ \A k \in DOMAIN log : log[k].filename = Filename(pdf_links[k])
       /\ downloaded_files = RecordedFilenames(log)
  /\ JustWrote =>
       /\ manifest[folder_name].name = listing[idx - 1].name
       /\ pdf_links = Truncate(listing[idx - 1].links, args.latest_only)
       /\ Len(log) = Len(pdf_links)
       /\ \A k \in DOMAIN log : log[k].filename = Filename(pdf_links[k])
       /\ manifest[folder_name].documents = RecordedFilenames(log)

\* The second of two person items has just got its record, with its two
\* documents, after the first one got its own.
C13_Witness ==
  /\ JustWrote
  /\ idx = 3
  /\ status[1] = "done"
  /\ Len(pdf_links) = 2
  /\ manifest[folder_name].documents =
       <<Filename(pdf_links[1]), Filename(pdf_links[2])>>

\* The key the spec gives for the name of its example.
Jean_Dupont_Tremblay ==
  <<"J", "e", "a", "n", "_", "D", "u", "p", "o", "n", "t", "_",
    "T", "r", "e", "m", "b", "l", "a", "y">>

\* The positions of a name without its parentheses that give one character
\* of the key each: a character that is not whitespace, or the first
\* character of a run of whitespace.
KeyUnits(kept) ==
  {i \in DOMAIN kept :
     kept[i] \notin Whitespace \/ i = 1 \/ kept[i - 1] \notin Whitespace}

\* The k-th smallest element of a set of numbers.
Nth(U, k) == CHOOSE i \in U : Cardinality({u \in U : u <= i}) = k

\* C15: sanitize_name is a function of the name alone: the key is the name
\* without its parentheses, with one underscore for each run of whitespace
\* left and for each underscore, the other characters kept in order; it
\* holds no parenthesis and no whitespace, and the key of
\* "Jean (Dupont)  Tremblay" is "Jean_Dupont_Tremblay".
C15_SanitizeNameContract ==
  called = "sanitize_name" =>
    LET kept == SelectSeq(argument.arg_name, LAMBDA c : c \notin {"(", ")"})
        U == KeyUnits(kept)
    IN /\ \A i \in DOMAIN returned.ret_key :
            returned.ret_key[i] \notin ({"(", ")"} \cup Whitespace)
       /\ Len(returned.ret_key) = Cardinality(U)
       /\ \A k \in DOMAIN returned.ret_key :
            returned.ret_key[k] = IF kept[Nth(U, k)] \in Whitespace
                          THEN "_" ELSE kept[Nth(U, k)]
       /\ argument.arg_name = JeanDupontTremblay =>
            returned.ret_key = Jean_Dupont_Tremblay

\* sanitize_name was applied to the name of the example and gave its key.
C15_Witness ==
  /\ called = "sanitize_name"
  /\ argument.arg_name = JeanDupontTremblay
  /\ returned.ret_key = Jean_Dupont_Tremblay

\* The positions of a text where four digits begin.
FourDigitRuns(text) == {i \in DOMAIN text : DigitsAt(text, i, 4)}

\* C16: the year label of an anchor is the first match, in its text, of a
\* run of four digits optionally followed by a hyphen and four more
\* digits, and "unknown" when there is none: "2021-2022" gives "2021-2022",
\* "Declaration 2020" gives "2020", a text without a digit gives "unknown".
\* The document id is the attribute when the anchor has it, else "unknown".
C16_YearAndDocumentId ==
  called = "link_fields" =>
    LET text == argument.arg_text
        M == FourDigitRuns(text)
    IN /\ M = {} => returned.ret_year = Unknown
       /\ M # {} =>
            \E i \in M :
              /\ \A k \in M : i <= k
              /\ \/ /\ i + 8 <= Len(text)
                    /\ text[i + 4] = "-"
                    /\ i + 5 \in M
                    /\ returned.ret_year = SubSeq(text, i, i + 8)
                 \/ /\ ~(i + 8 <= Len(text) /\ text[i + 4] = "-" /\ i + 5 \in M)
                    /\ returned.ret_year = SubSeq(text, i, i + 3)
       /\ text = Text20212022 => returned.ret_year = Text20212022
       /\ text = TextDeclaration2020 =>
            returned.ret_year = <<"2", "0", "2", "0">>
       /\ (\A k \in DOMAIN text : text[k] \notin Digits)
            => returned.ret_year = Unknown
       /\ \A p \in argument.arg_attrs :
            p[1] = "data-id-document" => returned.ret_doc_id = p[2]
       /\ (\A p \in argument.arg_attrs : p[1] # "data-id-document")
            => returned.ret_doc_id = Unknown

\* The text "2021-2022" of an anchor without the id attribute gave the
\* year label "2021-2022" and the document id "unknown".
C16_Witness ==
  /\ called = "link_fields"
  /\ argument.arg_text = Text20212022
  /\ returned.ret_year = Text20212022
  /\ returned.ret_doc_id = Unknown

\* The letters of the strings, spans and brs among the first n children.
NameLetters(children, n) ==
  UNION {Range(children[k].string) \ Whitespace :
           k \in {m \in 1..n : children[m].tag \in {"text", "span", "br"}}}

\* C14: the name is made of the direct strings and of the span and br
\* children that come before the first nested list of the item, trimmed
\* and joined by one space: nothing that stands at or after the beginning
\* of the first nested list, or inside it, is in the name.
C14_NothingFromListOnwardInName ==
  called = "reconstruct_name" =>
    LET first == FindList(argument.arg_children)
        n == IF first = 0 THEN Len(argument.arg_children) ELSE first - 1
    IN /\ Range(returned.ret_name) \ Whitespace = NameLetters(argument.arg_children, n)
       /\ returned.ret_name = Strip(returned.ret_name)

\* C14, for the items whose nested list is a child of the item (no span
\* and no div wraps a list): it holds.
C14_NameStopsAtChildList ==
  (called = "reconstruct_name"
     /\ \A k \in DOMAIN argument.arg_children :
          argument.arg_children[k].wraps_list => argument.arg_children[k].tag = "ul")
    => LET first == FindList(argument.arg_children)
           n == IF first = 0 THEN Len(argument.arg_children) ELSE first - 1
           kept == {k \in 1..n : /\ argument.arg_children[k].tag \in {"text", "span", "br"}
                                 /\ Strip(argument.arg_children[k].string) # <<>>}
       IN /\ Range(returned.ret_name) \ Whitespace = NameLetters(argument.arg_children, n)
          /\ returned.ret_name = Strip(returned.ret_name)
          /\ Len(returned.ret_name) =
               Cardinality(kept) +
               (IF kept = {} THEN 0 ELSE Cardinality(kept) - 1)

\* The three strategies in the order of the claim, the first that succeeds
\* giving the result: the parse of the first fenced block, the parse of
\* the substring that looks like an object, the template with the text.
ReferenceExtraction(text) ==
  LET fenced == IF FencedMatch(text)[1]
                THEN JsonLoads(FencedMatch(text)[2]) ELSE JsonError
      object == IF ObjectMatch(text)[1]
                THEN JsonLoads(ObjectMatch(text)[2]) ELSE JsonError
  IN IF fenced.kind # "error"
     THEN [kind |-> fenced.kind, content |-> fenced.content,
           full_text |-> <<>>]
     ELSE IF object.kind # "error"
     THEN [kind |-> object.kind, content |-> object.content,
           full_text |-> <<>>]
     ELSE [kind |-> "template", content |-> <<>>, full_text |-> text]

\* C12: for every response text the extraction does not raise and gives
\* what the three strategies give: the parsed content of the first fenced
\* block, else the parse of a substring that looks like an object, else
\* the template whose full_text is the text; the result is never null and
\* never empty.
C12_ExtractionFollowsThreeStrategies ==
  called = "extract_json_from_text" =>
    LET r == returned.ret_json
        ref == ReferenceExtraction(argument.arg_response)
    IN /\ r.kind # "raised"
       /\ r.kind = ref.kind
       /\ r.content = ref.content
       /\ r.full_text = ref.full_text
       /\ r.kind # "null"
       /\ r.content # <<"{", "}">>

\* C12, what holds: the extraction does not raise; a fenced block that
\* parses gives its content, whatever it is; without a fenced block an
\* object-like substring that parses gives its content; and in every other
\* case the result is the template whose full_text is the text.
C12_ExtractionAsCoded ==
  called = "extract_json_from_text" =>
    LET r == returned.ret_json
        text == argument.arg_response
        fenced == FencedMatch(text)
        object == ObjectMatch(text)
    IN /\ r.kind \in {"null", "object", "template"}
       /\ (fenced[1] /\ JsonLoads(fenced[2]).kind # "error")
            => r.content = fenced[2] /\ r.kind # "template"
       /\ (~fenced[1] /\ object[1] /\ JsonLoads(object[2]).kind # "error")
            => r.content = object[2] /\ r.kind = "object"
       /\ r.kind = "template" => r.full_text = text
       /\ (~fenced[1] /\ ~object[1]) => r.kind = "template"

\* The PDF files of a person directory.
FilesOf(fs, k) == {x \in fs : x[1] = k}

\* C18 (as stated): two persons of the listing with different displayed
\* names never share a storage location: the pass of a person never
\* rewrites a manifest that was written for a person of another name.
C18_DifferentNamesNeverShare ==
  [][\A k \in Folders :
       (idx \in DOMAIN listing /\ manifest[k].state = "ok"
          /\ manifest'[k] # manifest[k])
         => manifest[k].name = listing[idx].name]_vars

\* C18 (amended): the pass of a person touches nothing outside the
\* directory of the person's sanitized key: the manifest, the PDF files
\* and the directory of every other key are left as they are, also when
\* the documents have the same id and year.  (Two names with the same key,
\* which differ by parentheses or whitespace only, share the directory.)
C18_DifferentKeysNeverShare ==
  [][(pc \in {"person", "load", "links"} /\ idx \in DOMAIN listing) =>
       \A k \in Folders \ {sanitize_name(listing[idx].name)} :
         /\ manifest'[k] = manifest[k]
         /\ FilesOf(files', k) = FilesOf(files, k)
         /\ (k \in dirs') = (k \in dirs)]_vars

\* Two persons with different keys have got their manifests, which list
\* the same filename, each with its own file.
C18_Witness ==
  /\ JustWrote
  /\ idx = 3
  /\ status[1] = "done"
  /\ sanitize_name(listing[1].name) # sanitize_name(listing[2].name)
  /\ manifest[sanitize_name(listing[1].name)].name = listing[1].name
  /\ manifest[sanitize_name(listing[2].name)].name = listing[2].name
  /\ \E f \in Range(manifest[sanitize_name(listing[1].name)].documents) :
       /\ f \in Range(manifest[sanitize_name(listing[2].name)].documents)
       /\ <<sanitize_name(listing[1].name), f>> \in files
       /\ <<sanitize_name(listing[2].name), f>> \in files

\* The documents whose download failed in the pass and whose file is not
\* there are not in the manifest of the pass.
FailedNotListed ==
  \A i \in DOMAIN log :
    (log[i].kind = "failed" /\ <<folder_name, log[i].filename>> \notin files)
      => log[i].filename \notin Range(manifest[folder_name].documents)

\* C19 (as stated): every filename in the manifest a pass has just written
\* names a PDF file that is in the person's directory at that moment, and
\* a document whose download failed and whose file is absent is not listed.
C19_ListedFilesArePresent ==
  JustWrote =>
    /\ \A f \in Range(manifest[folder_name].documents) :
         <<folder_name, f>> \in files
    /\ FailedNotListed

\* C19 (amended): every filename in the manifest a pass has just written
\* names a PDF file that is in the person's directory at that moment, or
\* was taken over, in skip_existing mode, from the manifest the pass found
\* (without a look at the file); a document whose download failed and
\* whose file is absent is not listed.
C19_ListedFilesArePresentOrTakenOver ==
  JustWrote =>
    /\ \A f \in Range(manifest[folder_name].documents) :
         \/ <<folder_name, f>> \in files
         \/ args.skip_existing /\ f \in Range(existing_files)
    /\ FailedNotListed

\* A pass downloaded its first document, failed to download the second,
\* and wrote a manifest that lists the first only.
C19_Witness ==
  /\ JustWrote
  /\ Len(log) = 2
  /\ log[1].kind = "downloaded"
  /\ log[2].kind = "failed"
  /\ <<folder_name, log[2].filename>> \notin files
  /\ manifest[folder_name].documents = <<log[1].filename>>

\* ----------------------------------------------------------- specifications
CrawlStep ==
  \/ FetchPage
  \/ NameRaises
  \/ PersonBegin
  \/ LoadManifest
  \/ ProcessLinkLocal
  \/ ProcessLinkFetch
  \/ WriteManifest
  \/ FinishCrawl

AnalysisStep ==
  \/ AnalysisBegin
  \/ NextDir
  \/ AnalyzeCall
  \/ SaveArtifacts
  \/ PersonEnd
  \/ DirsEnd
  \/ Compare
  \/ SaveAggregate

Next == StartRun \/ CrawlStep \/ AnalysisStep

NextCrawl == StartRunCrawl \/ CrawlStep

\* The whole program: runs that download, analyse or do both.
Spec == Init /\ [][Next]_vars

\* Runs that only download, over the listings with every shape of item.
SpecCrawl == InitCrawl /\ [][NextCrawl]_vars

\* Runs that only download, with PDF files removed between the runs.
InitStore == InitWith(StoreListings)

NextStore == StartRunCrawl \/ CrawlStep \/ RemoveFile

SpecStore == InitStore /\ [][NextStore]_vars

\* The functions of the program applied on their own to bounded inputs.
InitPure == InitWith({<<>>})

NextPure ==
  \/ CallSanitizeName
  \/ CallLinkFields
  \/ CallReconstructName
  \/ CallExtractJson

SpecPure == InitPure /\ [][NextPure]_vars

====
